---- MODULE Spec2Model ----
(***************************************************************************)
(* Model of the hotel reservation backend: the booking routes with their   *)
(* body validators, the booking controller (createBooking,                 *)
(* updateBookingStatus, updatePaymentStatus, cancelBooking) and the        *)
(* Booking schema with its pre-save hook.                                  *)
(*                                                                         *)
(* Time is counted in half days (DAY = 2 units), so that the ceiling in    *)
(* the night count is visible.  Money is counted in 1/10000 of a dollar    *)
(* (DOLLAR = 10000 units, CENT = 100 units), so that 12% of a price given  *)
(* in cents is an exact integer and "rounded to cents" means "a multiple   *)
(* of CENT".                                                               *)
(*                                                                         *)
(* A request is handled on a slot p of Procs; resp[p] is the response the  *)
(* slot sent last.  Requests are taken to come from an authenticated       *)
(* admin where the route asks for one.                                     *)
(*                                                                         *)
(* Three specifications share the handlers:                                *)
(*   Spec           one slot, createBooking as one action over a broad     *)
(*                  set of request bodies, status updates to the states    *)
(*                  that block a room;                                     *)
(*   RaceSpec       two slots, createBooking step by step (one action per  *)
(*                  database round trip), so that its awaits interleave,   *)
(*                  over a narrow set of bodies;                           *)
(*   LifecycleSpec  one slot, every input of the status, payment and       *)
(*                  cancel handlers on the bookings of a small store.      *)
(***************************************************************************)
EXTENDS Integers, Sequences, FiniteSets, TLC

\* ---------------------------------------------------------------- bounds
MaxBookings == 2
LifecycleBookings == 1
MaxDate == 2
MaxNow == 1
MaxGuests == 2
MaxSessions == 2
MaxContacts == 2
MaxHour == 6
MaxRaceHour == 3
Procs == {1, 2}

\* ------------------------------------------------------------- program values
DAY == 2
DOLLAR == 10000
CENT == 100
NoDate == -1
NoNumber == 0
NoAmount == -1
RandCount == 2
MissingRoom == 4

RoomIds == {1, 2, 3}
Dates == 0..MaxDate
Guests == 1..MaxGuests
RandSuffix == 0..(RandCount - 1)

\* the statuses the status route and updateBookingStatus both list
validStatuses == {"pending", "confirmed", "checked_in", "checked_out",
                  "cancelled", "no_show"}
\* the list updatePaymentStatus checks body.status against
validPaymentStatuses == {"pending", "processing", "completed", "failed",
                         "refunded"}
\* the list the payment route checks body.paymentStatus against
routePaymentStatuses == {"pending", "completed", "failed", "refunded"}
\* a body field that the request does not carry
Absent == "undefined"

\* the sockets a run connects
SessionIds == 1..MaxSessions

\* rooms, bookings, contacts: the collections; now: the clock; pc, req,
\* roomData, bookingData: a createBooking in progress; raced: its history;
\* resp: the last response of each slot; sessions: the sockets of the
\* Socket.IO server; emitted, delivered: the events the last handler
\* emitted, and those each socket received from it; user: the account
\* that logs in; loaded: the user document and the password of a login in
\* progress; hour: the clock as the login code reads it, in hours
VARIABLES rooms, bookings, now, pc, req, roomData, bookingData, raced, resp,
          contacts, sessions, emitted, delivered, user, loaded, hour

vars == <<rooms, bookings, now, pc, req, roomData, bookingData, raced, resp,
          contacts, sessions, emitted, delivered,
                   user, loaded, hour>>

\* ------------------------------------------------------------ the stores
NoRoom == [exists |-> FALSE, isAvailable |-> FALSE, pricePerNight |-> 0,
           maxOccupancy |-> 0]

BookingIds == 1..Len(bookings)

\* ------------------------------------------------------------ responses
Response(code, message) == [code |-> code, message |-> message]
NoResponse == Response(0, "")
ValidationFailed == Response(400, "Validation failed")

\* ------------------------------------------------------- pure functions

\* 'CONF' + Date.now() + random suffix: a number made of the clock and a
\* random suffix; 0 stands for "no number"
GeneratedNumber(t, rnd) == 1 + t * RandCount + rnd

\* Math.ceil((checkOut - checkIn) / (1000 * 60 * 60 * 24))
CeilDiv(a, b) == IF a % b = 0 THEN a \div b ELSE (a \div b) + 1

numberOfNightsOf(checkIn, checkOut) == CeilDiv(checkOut - checkIn, DAY)

\* checkIn < new Date(), in validateBooking and in createBooking
InThePast(checkIn, t) == checkIn < t

\* faulty variant: an empty range passes
NotAfter_Strict(checkOut, checkIn) == checkOut < checkIn

\* checkOut <= checkIn, in validateBooking and (as checkIn >= checkOut) in
\* createBooking
NotAfter(checkOut, checkIn) == checkOut <= checkIn

\* body('paymentInfo.method').isIn([...])
paymentMethods == {"credit_card", "debit_card", "paypal", "bank_transfer",
                   "cash"}

\* validateBooking followed by handleValidationErrors
validateBooking(body, t) ==
    IF \/ InThePast(body.checkInDate, t)
       \/ NotAfter(body.checkOutDate, body.checkInDate)
       \/ body.numberOfGuests < 1
       \/ body.numberOfGuests > 10
       \/ body.paymentInfo.method \notin paymentMethods
    THEN ValidationFailed
    ELSE NoResponse

\* faulty variant: closed intervals, a check-out day blocks a check-in on that day
IsConflicting_Closed(b, room, checkIn, checkOut) ==
    /\ b.room = room
    /\ b.checkInDate <= checkOut
    /\ b.checkOutDate >= checkIn
    /\ b.bookingStatus \in {"confirmed", "checked_in"}

\* faulty variant: a booking blocks its dates whatever its status
IsConflicting_AnyStatus(b, room, checkIn, checkOut) ==
    /\ b.room = room
    /\ b.checkInDate < checkOut
    /\ b.checkOutDate > checkIn

\* the filter of createBooking's Booking.find
IsConflicting(b, room, checkIn, checkOut) ==
    /\ b.room = room
    /\ b.checkInDate < checkOut
    /\ b.checkOutDate > checkIn
    /\ b.bookingStatus \in {"confirmed", "checked_in"}

conflictingBookings(store, room, checkIn, checkOut) ==
    {i \in 1..Len(store) : IsConflicting(store[i], room, checkIn, checkOut)}

\* faulty variant: the fallback of 2 guests whatever the room says
maxOccupancyOf_Fallback(rd) == 2

\* roomData.availability?.maxOccupancy || roomData.maxOccupancy || 2
\* (the Room schema has no availability sub-document)
maxOccupancyOf(rd) == IF rd.maxOccupancy # 0 THEN rd.maxOccupancy ELSE 2

\* roomData.pricePerNight || roomData.pricing?.basePrice || 100
\* (the Room schema has no pricing sub-document)
pricePerNightOf(rd) ==
    IF rd.pricePerNight # 0 THEN rd.pricePerNight ELSE 100 * DOLLAR

\* subtotal * taxRate, with taxRate = 0.12
taxesOf(subtotal) == (subtotal * 12) \div 100

serviceFee == 25 * DOLLAR

\* faulty variant: the availability flag is not looked at
roomChecks_NoFlag(rd, body, t) ==
    IF ~rd.exists
    THEN Response(404, "Room not found")
    ELSE IF NotAfter(body.checkOutDate, body.checkInDate)
    THEN Response(400, "Check-out date must be after check-in date")
    ELSE IF InThePast(body.checkInDate, t)
    THEN Response(400, "Check-in date cannot be in the past")
    ELSE NoResponse

\* createBooking from Room.findById to the Booking.find it issues
roomChecks(rd, body, t) ==
    IF ~rd.exists
    THEN Response(404, "Room not found")
    ELSE IF ~rd.isAvailable
    THEN Response(400, "Room is not available")
    ELSE IF NotAfter(body.checkOutDate, body.checkInDate)
    THEN Response(400, "Check-out date must be after check-in date")
    ELSE IF InThePast(body.checkInDate, t)
    THEN Response(400, "Check-in date cannot be in the past")
    ELSE NoResponse

\* createBooking from the answer of Booking.find to the pricing
bookingChecks(store, rd, body) ==
    IF conflictingBookings(store, body.room, body.checkInDate,
                           body.checkOutDate) # {}
    THEN Response(400, "Room is not available for the selected dates")
    ELSE IF body.numberOfGuests > maxOccupancyOf(rd)
    THEN Response(400, "Room can accommodate maximum "
                        \o ToString(maxOccupancyOf(rd)) \o " guests")
    ELSE NoResponse

\* faulty variant: a request that says it is paid is booked as confirmed
bookingDataOf_Paid(rd, body) ==
    LET numberOfNights == numberOfNightsOf(body.checkInDate, body.checkOutDate)
        pricePerNight == pricePerNightOf(rd)
        subtotal == pricePerNight * numberOfNights
        taxes == taxesOf(subtotal)
        totalAmount == subtotal + taxes + serviceFee
    IN  [room |-> body.room,
         checkInDate |-> body.checkInDate,
         checkOutDate |-> body.checkOutDate,
         numberOfGuests |-> body.numberOfGuests,
         numberOfNights |-> numberOfNights,
         pricing |-> [pricePerNight |-> pricePerNight,
                      subtotal |-> subtotal,
                      taxes |-> taxes,
                      serviceFee |-> serviceFee,
                      totalAmount |-> totalAmount],
         paymentInfo |-> [method |-> body.paymentInfo.method,
                          status |-> "pending"],
         bookingStatus |-> IF body.paymentInfo.status = "completed"
                           THEN "confirmed" ELSE "pending"]

\* the pricing and the bookingData object of createBooking
bookingDataOf(rd, body) ==
    LET numberOfNights == numberOfNightsOf(body.checkInDate, body.checkOutDate)
        pricePerNight == pricePerNightOf(rd)
        subtotal == pricePerNight * numberOfNights
        taxes == taxesOf(subtotal)
        totalAmount == subtotal + taxes + serviceFee
    IN  [room |-> body.room,
         checkInDate |-> body.checkInDate,
         checkOutDate |-> body.checkOutDate,
         numberOfGuests |-> body.numberOfGuests,
         numberOfNights |-> numberOfNights,
         pricing |-> [pricePerNight |-> pricePerNight,
                      subtotal |-> subtotal,
                      taxes |-> taxes,
                      serviceFee |-> serviceFee,
                      totalAmount |-> totalAmount],
         paymentInfo |-> [method |-> body.paymentInfo.method,
                          status |-> "pending"],
         bookingStatus |-> "pending"]

\* -------------------------------------------------- the Booking document

\* new Booking(bookingData): the schema keeps the paths it declares and
\* fills in their defaults.  pricing.serviceFee, paymentInfo.method and
\* paymentInfo.status are not schema paths and are dropped; pricing.fees
\* defaults to 0 and paymentInfo.paymentStatus to 'pending'.  The paths
\* that no handler reads back (bookingId, guestInfo, notes, transactionId,
\* source, currency, cardLastFour, cancellation.isCancelled) are left out
\* of the document.
castPaymentInfo(obj) ==
    [paymentStatus |-> "pending", paymentDate |-> NoDate]

NewBooking(data) ==
    [room |-> data.room,
     checkInDate |-> data.checkInDate,
     checkOutDate |-> data.checkOutDate,
     numberOfGuests |-> data.numberOfGuests,
     numberOfNights |-> data.numberOfNights,
     pricing |-> [pricePerNight |-> data.pricing.pricePerNight,
                  subtotal |-> data.pricing.subtotal,
                  taxes |-> data.pricing.taxes,
                  fees |-> 0,
                  totalAmount |-> data.pricing.totalAmount],
     paymentInfo |-> castPaymentInfo(data.paymentInfo),
     bookingStatus |-> data.bookingStatus,
     confirmationNumber |-> NoNumber,
     cancellation |-> [cancelledAt |-> NoDate, cancellationReason |-> Absent,
                       refundAmount |-> NoAmount],
     checkInTime |-> NoDate,
     checkOutTime |-> NoDate]

\* faulty variant: a fresh number on every save in status confirmed
preSave_Renumber(doc, t, rnd) ==
    LET d1 == IF doc.bookingStatus = "confirmed"
              THEN [doc EXCEPT !.confirmationNumber = GeneratedNumber(t, rnd)]
              ELSE doc
    IN  [d1 EXCEPT !.numberOfNights =
                      numberOfNightsOf(d1.checkInDate, d1.checkOutDate)]

\* bookingSchema.pre('save')
preSave(doc, t, rnd) ==
    LET d1 == IF doc.confirmationNumber = NoNumber
                 /\ doc.bookingStatus = "confirmed"
              THEN [doc EXCEPT !.confirmationNumber = GeneratedNumber(t, rnd)]
              ELSE doc
    IN  [d1 EXCEPT !.numberOfNights =
                      numberOfNightsOf(d1.checkInDate, d1.checkOutDate)]

CardPayment == [method |-> "credit_card", status |-> Absent]

NoRequest == [room |-> 0, checkInDate |-> 0, checkOutDate |-> 0,
              numberOfGuests |-> 0, paymentInfo |-> CardPayment]
NoBookingData == bookingDataOf(NoRoom, NoRequest)

\* ------------------------------------------------------------------ Init
\* of the user document the login code reads and writes loginAttempts
\* (default 0) and lockUntil
NewUser == [loginAttempts |-> 0, lockUntil |-> NoDate]

\* no login in progress
NoLogin == [user |-> NewUser, passwordOk |-> FALSE]

\* the room catalog: a bookable room of two guests at 33.33 a night, a
\* bookable free room of one guest, a room taken off sale, and no room 4
Init ==
    /\ rooms = [r \in RoomIds \cup {MissingRoom} |->
                  CASE r = 1 -> [exists |-> TRUE, isAvailable |-> TRUE,
                                 pricePerNight |-> 3333 * CENT,
                                 maxOccupancy |-> 2]
                    [] r = 2 -> [exists |-> TRUE, isAvailable |-> TRUE,
                                 pricePerNight |-> 0, maxOccupancy |-> 1]
                    [] r = 3 -> [exists |-> TRUE, isAvailable |-> FALSE,
                                 pricePerNight |-> 100 * DOLLAR,
                                 maxOccupancy |-> 1]
                    [] OTHER -> NoRoom]
    /\ bookings = <<>>
    /\ now = 0
    /\ pc = [p \in Procs |-> "idle"]
    /\ req = [p \in Procs |-> NoRequest]
    /\ roomData = [p \in Procs |-> NoRoom]
    /\ bookingData = [p \in Procs |-> NoBookingData]
    /\ raced = [p \in Procs |-> FALSE]
    /\ resp = [p \in Procs |-> NoResponse]
    /\ contacts = <<>>
    /\ sessions = [s \in SessionIds |-> "disconnected"]
    /\ emitted = <<>>
    /\ delivered = [s \in SessionIds |-> <<>>]
    /\ user = NewUser
    /\ loaded = [p \in Procs |-> NoLogin]
    /\ hour = 0

\* the clock
Tick ==
    /\ now < MaxNow
    /\ now' = now + 1
    /\ UNCHANGED <<rooms, bookings, pc, req, roomData, bookingData, raced,
                   resp, contacts, sessions, emitted, delivered,
                   user, loaded, hour>>

\* ------------------------------------------------- the notification relay

\* faulty variant: io.emit(...), to every connected socket
Emit_Broadcast(events) ==
    /\ emitted' = events
    /\ delivered' = [s \in SessionIds |->
                       IF sessions[s] # "disconnected" THEN events ELSE <<>>]

\* io.to('admin-room').emit(...): the events go to the sockets that are in
\* the room at that moment
Emit(events) ==
    /\ emitted' = events
    /\ delivered' = [s \in SessionIds |->
                       IF sessions[s] = "joined" THEN events ELSE <<>>]

\* a handler run that emits nothing
NoEmit == Emit(<<>>)

relayFrame == <<rooms, bookings, now, pc, req, roomData, bookingData, raced,
                resp, contacts, emitted, delivered,
                   user, loaded, hour>>

\* io.on('connection')
connect(s) ==
    /\ sessions[s] = "disconnected"
    /\ sessions' = [sessions EXCEPT ![s] = "connected"]
    /\ UNCHANGED relayFrame

\* socket.on('join-admin'): socket.join('admin-room')
joinAdmin(s) ==
    /\ sessions[s] # "disconnected"
    /\ sessions' = [sessions EXCEPT ![s] = "joined"]
    /\ UNCHANGED relayFrame

\* socket.on('disconnect'): the socket has left its rooms
disconnect(s) ==
    /\ sessions[s] # "disconnected"
    /\ sessions' = [sessions EXCEPT ![s] = "disconnected"]
    /\ UNCHANGED relayFrame

\* -------------------------------------------------------- createBooking

\* the slot answers r
Respond(p, r) == resp' = [resp EXCEPT ![p] = r]

\* booking.save() of a new document: the pre-save hook, then the insert
InsertBooking(data, rnd) ==
    bookings' = Append(bookings, preSave(NewBooking(data), now, rnd))

\* faulty variant: the admin room is told of a request that was turned down
Reject_Notify(p, r) ==
    Respond(p, r) /\ UNCHANGED bookings /\ Emit(<<"new-booking">>)

\* the slot answers r, nothing is written and nothing is emitted
Reject(p, r) == Respond(p, r) /\ UNCHANGED bookings /\ NoEmit

ServerError == Response(500, "Server error while creating booking")

\* POST /api/bookings handled without interruption: the route's validators,
\* then createBooking.  ok tells whether the insert goes through and
\* emitOk whether io.to(...).emit returns: the emit stands inside the
\* handler's try block, after the save, so the catch block answers 500
\* when either throws.
createBooking_emit(p, body, rnd, ok, emitOk) ==
    /\ pc[p] = "idle"
    /\ LET rd == rooms[body.room]
           v == validateBooking(body, now)
           r1 == roomChecks(rd, body, now)
           r2 == bookingChecks(bookings, rd, body)
       IN  IF v # NoResponse
           THEN Reject(p, v)
           ELSE IF r1 # NoResponse
           THEN Reject(p, r1)
           ELSE IF r2 # NoResponse
           THEN Reject(p, r2)
           ELSE IF ~ok
           THEN Reject(p, ServerError)
           ELSE IF ~emitOk
           THEN /\ InsertBooking(bookingDataOf(rd, body), rnd)
                /\ NoEmit
                /\ Respond(p, ServerError)
           ELSE /\ InsertBooking(bookingDataOf(rd, body), rnd)
                /\ Emit(<<"new-booking">>)
                /\ Respond(p, Response(201, "Booking created successfully"))
    /\ raced' = [raced EXCEPT ![p] = FALSE]
    /\ UNCHANGED <<rooms, now, pc, req, roomData, bookingData, contacts,
                   sessions,
                   user, loaded, hour>>

\* createBooking with an emit that returns
createBooking(p, body, rnd, ok) == createBooking_emit(p, body, rnd, ok, TRUE)

\* the slot answers r and the handler's locals go away
Finish(p, r) ==
    /\ pc' = [pc EXCEPT ![p] = "idle"]
    /\ Respond(p, r)
    /\ req' = [req EXCEPT ![p] = NoRequest]
    /\ roomData' = [roomData EXCEPT ![p] = NoRoom]
    /\ bookingData' = [bookingData EXCEPT ![p] = NoBookingData]
    /\ raced' = [raced EXCEPT ![p] = FALSE]
    /\ NoEmit

\* step 1: the request arrives, the validators run, Room.findById answers,
\* and the handler runs up to the Booking.find it issues
createBooking_findRoom(p, body) ==
    /\ pc[p] = "idle"
    /\ LET rd == rooms[body.room]
           v == validateBooking(body, now)
           r1 == roomChecks(rd, body, now)
       IN  IF v # NoResponse
           THEN Finish(p, v)
           ELSE IF r1 # NoResponse
           THEN Finish(p, r1)
           ELSE /\ pc' = [pc EXCEPT ![p] = "query"]
                /\ req' = [req EXCEPT ![p] = body]
                /\ roomData' = [roomData EXCEPT ![p] = rd]
                /\ Respond(p, NoResponse)
                /\ raced' = [raced EXCEPT ![p] = FALSE]
                /\ UNCHANGED <<bookingData, emitted, delivered,
                   user, loaded, hour>>
    /\ UNCHANGED <<rooms, bookings, now, contacts, sessions,
                   user, loaded, hour>>

\* step 2: Booking.find answers; the handler checks the conflicts and the
\* occupancy, computes the pricing and builds bookingData, up to the save
\* it issues
createBooking_query(p) ==
    /\ pc[p] = "query"
    /\ LET r2 == bookingChecks(bookings, roomData[p], req[p])
       IN  IF r2 # NoResponse
           THEN Finish(p, r2)
           ELSE /\ pc' = [pc EXCEPT ![p] = "save"]
                /\ bookingData' = [bookingData EXCEPT ![p] =
                                      bookingDataOf(roomData[p], req[p])]
                /\ UNCHANGED <<req, roomData, raced, resp, emitted,
                               delivered>>
    /\ UNCHANGED <<rooms, bookings, now, contacts, sessions,
                   user, loaded, hour>>

\* a booking that another handler inserts while q is between its overlap
\* query and its own insert, on q's room and overlapping q's dates
RacedBy(q, data) ==
    /\ pc[q] = "save"
    /\ data.room = req[q].room
    /\ data.checkInDate < req[q].checkOutDate
    /\ data.checkOutDate > req[q].checkInDate

\* step 3: new Booking(bookingData), booking.save(), the response.  raced
\* remembers, for the handlers still before their insert, that a booking
\* overlapping theirs went in after their overlap query.
createBooking_save(p, rnd, ok) ==
    /\ pc[p] = "save"
    /\ IF ~ok
       THEN /\ Finish(p, ServerError)
            /\ UNCHANGED bookings
       ELSE /\ InsertBooking(bookingData[p], rnd)
            /\ Emit(<<"new-booking">>)
            /\ pc' = [pc EXCEPT ![p] = "idle"]
            /\ Respond(p, Response(201, "Booking created successfully"))
            /\ req' = [req EXCEPT ![p] = NoRequest]
            /\ roomData' = [roomData EXCEPT ![p] = NoRoom]
            /\ bookingData' = [bookingData EXCEPT ![p] = NoBookingData]
            /\ raced' = [q \in Procs |->
                           IF q = p THEN raced[p]
                           ELSE raced[q] \/ RacedBy(q, bookingData[p])]
    /\ UNCHANGED <<rooms, now, contacts, sessions,
                   user, loaded, hour>>

\* ---------------------------------------------------- the admin handlers
AdminIds == 1..MaxBookings
RefundAmounts == {NoAmount, 0, 50 * DOLLAR}
Reasons == {Absent, "changed plans"}

\* booking.save() of a loaded document: the pre-save hook, then the write
SaveBooking(id, doc, rnd) ==
    bookings' = [bookings EXCEPT ![id] = preSave(doc, now, rnd)]

\* faulty variant: the stamp is taken at every check-in
StampCheckIn_Always(doc, status, t) ==
    IF status = "checked_in" THEN [doc EXCEPT !.checkInTime = t] ELSE doc

\* if (status === 'checked_in' && !booking.checkInTime) ...
StampCheckIn(doc, status, t) ==
    IF status = "checked_in" /\ doc.checkInTime = NoDate
    THEN [doc EXCEPT !.checkInTime = t]
    ELSE doc

\* if (status === 'checked_out' && !booking.checkOutTime) ...
StampCheckOut(doc, status, t) ==
    IF status = "checked_out" /\ doc.checkOutTime = NoDate
    THEN [doc EXCEPT !.checkOutTime = t]
    ELSE doc

\* the status route's body('status').isIn([...]), handleValidationErrors
validateStatusBody(status) ==
    IF status \in validStatuses THEN NoResponse ELSE ValidationFailed

\* PATCH /:id/status: the route's validators, then updateBookingStatus.
\* emitOk tells whether io.to(...).emit returns; it stands inside the
\* handler's try block, after the save.
updateBookingStatus_emit(p, id, status, rnd, emitOk) ==
    /\ pc[p] = "idle"
    /\ IF validateStatusBody(status) # NoResponse
       THEN Reject(p, validateStatusBody(status))
       ELSE IF status \notin validStatuses
       THEN Reject(p, Response(400, "Invalid booking status"))
       ELSE IF id \notin BookingIds
       THEN Reject(p, Response(404, "Booking not found"))
       ELSE LET d1 == [bookings[id] EXCEPT !.bookingStatus = status]
                d2 == StampCheckIn(d1, status, now)
                d3 == StampCheckOut(d2, status, now)
            IN  /\ SaveBooking(id, d3, rnd)
                /\ IF emitOk
                   THEN /\ Emit(<<"booking-updated">>)
                        /\ Respond(p, Response(200,
                                    "Booking status updated successfully"))
                   ELSE /\ NoEmit
                        /\ Respond(p, Response(500,
                              "Server error while updating booking status"))
    /\ UNCHANGED <<rooms, now, pc, req, roomData, bookingData, raced,
                   contacts, sessions,
                   user, loaded, hour>>

\* updateBookingStatus with an emit that returns
updateBookingStatus(p, id, status, rnd) ==
    updateBookingStatus_emit(p, id, status, rnd, TRUE)

\* the payment route's body('paymentStatus').isIn([...]),
\* handleValidationErrors
validatePaymentBody(body) ==
    IF body.paymentStatus \in routePaymentStatuses
    THEN NoResponse
    ELSE ValidationFailed

\* if (status === 'completed' && booking.bookingStatus === 'pending') ...
AutoConfirm(doc, status) ==
    IF status = "completed" /\ doc.bookingStatus = "pending"
    THEN [doc EXCEPT !.bookingStatus = "confirmed"]
    ELSE doc

\* PATCH /:id/payment: the route's validators, then updatePaymentStatus.
\* The route validates body.paymentStatus; the handler reads body.status.
\* booking.paymentInfo.status is not a schema path, so the assignment to it
\* is not part of what is saved.
updatePaymentStatus(p, id, body, rnd) ==
    /\ pc[p] = "idle"
    /\ LET status == body.status
       IN  IF validatePaymentBody(body) # NoResponse
           THEN Respond(p, validatePaymentBody(body)) /\ UNCHANGED bookings
           ELSE IF status \notin validPaymentStatuses
           THEN /\ Respond(p, Response(400, "Invalid payment status"))
                /\ UNCHANGED bookings
           ELSE IF id \notin BookingIds
           THEN /\ Respond(p, Response(404, "Booking not found"))
                /\ UNCHANGED bookings
           ELSE LET d1 == IF status = "completed"
                          THEN [bookings[id] EXCEPT
                                  !.paymentInfo.paymentDate = now]
                          ELSE bookings[id]
                    d2 == AutoConfirm(d1, status)
                IN  /\ SaveBooking(id, d2, rnd)
                    /\ Respond(p, Response(200,
                                    "Payment status updated successfully"))
    /\ NoEmit
    /\ UNCHANGED <<rooms, now, pc, req, roomData, bookingData, raced,
                   contacts, sessions,
                   user, loaded, hour>>

\* the cancel route's validators (a reason of 5 to 500 characters, an
\* optional refundAmount of at least 0), handleValidationErrors
validateCancelBody(reason, refundAmount) ==
    IF reason = Absent \/ (refundAmount # NoAmount /\ refundAmount < 0)
    THEN ValidationFailed
    ELSE NoResponse

\* faulty variant: a completed booking can be cancelled
CancelGuard_NoCompleted(doc) ==
    IF doc.bookingStatus = "cancelled"
    THEN Response(400, "Booking is already cancelled")
    ELSE NoResponse

\* the guards of cancelBooking
CancelGuard(doc) ==
    IF doc.bookingStatus = "cancelled"
    THEN Response(400, "Booking is already cancelled")
    ELSE IF doc.bookingStatus = "checked_out"
    THEN Response(400, "Cannot cancel completed booking")
    ELSE NoResponse

\* refundAmount > 0 ? 'pending' : 'not_applicable'
refundStatusOf(refundAmount) ==
    IF refundAmount > 0 THEN "pending" ELSE "not_applicable"

\* the object cancelBooking assigns to booking.cancellation
cancellationOf(t, reason, refundAmount) ==
    [cancelledAt |-> t,
     reason |-> IF reason = Absent THEN "Cancelled by guest" ELSE reason,
     refundAmount |-> IF refundAmount \in {NoAmount, 0} THEN 0
                      ELSE refundAmount,
     refundStatus |-> refundStatusOf(refundAmount)]

\* the assignment of an object to the nested path cancellation: the schema
\* keeps the paths it declares (cancelledAt, cancellationReason,
\* refundAmount) and drops the others (reason, refundStatus)
castCancellation(obj) ==
    [cancelledAt |-> obj.cancelledAt,
     cancellationReason |-> Absent,
     refundAmount |-> obj.refundAmount]

\* PATCH /:id/cancel: the route's validators, then cancelBooking
cancelBooking(p, id, reason, refundAmount, rnd) ==
    /\ pc[p] = "idle"
    /\ IF validateCancelBody(reason, refundAmount) # NoResponse
       THEN /\ Respond(p, validateCancelBody(reason, refundAmount))
            /\ UNCHANGED bookings
       ELSE IF id \notin BookingIds
       THEN /\ Respond(p, Response(404, "Booking not found"))
            /\ UNCHANGED bookings
       ELSE IF CancelGuard(bookings[id]) # NoResponse
       THEN /\ Respond(p, CancelGuard(bookings[id]))
            /\ UNCHANGED bookings
       ELSE LET d1 == [bookings[id] EXCEPT
                         !.bookingStatus = "cancelled",
                         !.cancellation =
                            castCancellation(
                               cancellationOf(now, reason, refundAmount))]
            IN  /\ SaveBooking(id, d1, rnd)
                /\ Respond(p, Response(200, "Booking cancelled successfully"))
    /\ NoEmit
    /\ UNCHANGED <<rooms, now, pc, req, roomData, bookingData, raced,
                   contacts, sessions,
                   user, loaded, hour>>

\* -------------------------------------------------- the contact handler

\* Contact.create(contactData): of a contact document the model keeps the
\* creation time (timestamps: true) and the status (default 'new')
NewContact(t) == [createdAt |-> t, status |-> "new"]

\* POST /api/contacts: validateContact, then createContact.  valid tells
\* whether the form passes the validators, confirmationOk and
\* notificationOk whether sendConfirmationEmail and sendAdminNotification
\* return; each email stands in a try block of its own whose catch only
\* logs.
createContact(p, valid, confirmationOk, notificationOk) ==
    /\ pc[p] = "idle"
    /\ IF ~valid
       THEN Respond(p, ValidationFailed) /\ UNCHANGED contacts
       ELSE /\ contacts' = Append(contacts, NewContact(now))
            /\ Respond(p, Response(201,
                  "Contact submission received successfully. We will get back to you soon."))
    /\ NoEmit
    /\ UNCHANGED <<rooms, bookings, now, pc, req, roomData, bookingData,
                   raced, sessions,
                   user, loaded, hour>>

\* -------------------------------------------------------------- the login

\* 2 * 60 * 60 * 1000 ms, in hours
TwoHours == 2

\* userSchema.virtual('isLocked'): !!(this.lockUntil && this.lockUntil > Date.now())
isLocked(this, t) == this.lockUntil # NoDate /\ this.lockUntil > t

\* faulty variant: the account is locked one failed attempt late
incLoginAttempts_Late(this, doc, t) ==
    IF this.lockUntil # NoDate /\ this.lockUntil < t
    THEN [doc EXCEPT !.lockUntil = NoDate, !.loginAttempts = 1]
    ELSE LET inc == [doc EXCEPT !.loginAttempts = @ + 1]
         IN  IF this.loginAttempts >= 5 /\ ~isLocked(this, t)
             THEN [inc EXCEPT !.lockUntil = t + TwoHours]
             ELSE inc

\* faulty variant: an expired lock does not restart the count
incLoginAttempts_NoRestart(this, doc, t) ==
    LET inc == [doc EXCEPT !.loginAttempts = @ + 1]
    IN  IF this.loginAttempts + 1 >= 5 /\ ~isLocked(this, t)
        THEN [inc EXCEPT !.lockUntil = t + TwoHours]
        ELSE inc

\* userSchema.methods.incLoginAttempts: this is the document the login
\* loaded, doc the stored document that this.updateOne changes; $inc adds
\* to the stored count, the conditions read the loaded one
incLoginAttempts(this, doc, t) ==
    IF this.lockUntil # NoDate /\ this.lockUntil < t
    THEN [doc EXCEPT !.lockUntil = NoDate, !.loginAttempts = 1]
    ELSE LET inc == [doc EXCEPT !.loginAttempts = @ + 1]
         IN  IF this.loginAttempts + 1 >= 5 /\ ~isLocked(this, t)
             THEN [inc EXCEPT !.lockUntil = t + TwoHours]
             ELSE inc

\* userSchema.methods.resetLoginAttempts: $unset of both fields; an unset
\* loginAttempts reads as its default
resetLoginAttempts(doc) ==
    [doc EXCEPT !.loginAttempts = 0, !.lockUntil = NoDate]

\* user.matchPassword(password) of the login route, called on a user whose
\* password findByCredentials has just compared: the same comparison.  The
\* route's own user.isLocked reads the document findByCredentials found
\* unlocked.
matchPassword(passwordOk) == passwordOk

\* loginRateLimit: 423 while the account is locked
loginRateLimit(this, t) ==
    IF isLocked(this, t)
    THEN Response(423, "Account is locked. Try again in "
                        \o ToString((this.lockUntil - t) * 60) \o " minutes.")
    ELSE NoResponse

\* the error handler's answer to the Error that findByCredentials throws
Thrown(message) == Response(500, message)

InvalidCredentials == Thrown("Invalid login credentials")

loginFrame == <<rooms, bookings, now, req, roomData, bookingData, raced,
                contacts, sessions>>

\* findByCredentials from comparePassword on, then the rest of the login
\* route: a wrong password counts a failed attempt and throws, a right one
\* resets the count, passes the route's own checks and is answered 200
login_update(p) ==
    /\ pc[p] = "login_update"
    /\ IF ~loaded[p].passwordOk
       THEN /\ user' = incLoginAttempts(loaded[p].user, user, hour)
            /\ Respond(p, InvalidCredentials)
       ELSE IF ~matchPassword(loaded[p].passwordOk)
       THEN /\ user' = incLoginAttempts(loaded[p].user,
                                        resetLoginAttempts(user), hour)
            /\ Respond(p, Response(401, "Invalid credentials"))
       ELSE /\ user' = resetLoginAttempts(user)
            /\ Respond(p, Response(200, "Login successful"))
    /\ pc' = [pc EXCEPT ![p] = "idle"]
    /\ loaded' = [loaded EXCEPT ![p] = NoLogin]
    /\ NoEmit
    /\ UNCHANGED <<loginFrame, hour>>

\* findByCredentials up to comparePassword: User.findOne, then the lock
login_find(p) ==
    /\ pc[p] = "login_find"
    /\ IF isLocked(user, hour)
       THEN /\ Respond(p, Thrown(
                  "Account is temporarily locked due to too many failed login attempts"))
            /\ pc' = [pc EXCEPT ![p] = "idle"]
            /\ loaded' = [loaded EXCEPT ![p] = NoLogin]
       ELSE /\ loaded' = [loaded EXCEPT ![p].user = user]
            /\ pc' = [pc EXCEPT ![p] = "login_update"]
            /\ UNCHANGED resp
    /\ NoEmit
    /\ UNCHANGED <<loginFrame, user, hour>>

\* POST /api/auth/login for the account's email up to the handler:
\* loginRateLimit
login_rateLimit(p, passwordOk) ==
    /\ pc[p] = "idle"
    /\ IF loginRateLimit(user, hour) # NoResponse
       THEN /\ Respond(p, loginRateLimit(user, hour))
            /\ UNCHANGED <<pc, loaded>>
       ELSE /\ loaded' = [loaded EXCEPT ![p] =
                             [user |-> NewUser, passwordOk |-> passwordOk]]
            /\ pc' = [pc EXCEPT ![p] = "login_find"]
            /\ UNCHANGED resp
    /\ NoEmit
    /\ UNCHANGED <<loginFrame, user, hour>>

\* POST /api/auth/login handled without interruption
login(p, passwordOk) ==
    /\ pc[p] = "idle"
    /\ IF loginRateLimit(user, hour) # NoResponse
       THEN Respond(p, loginRateLimit(user, hour)) /\ UNCHANGED user
       ELSE IF ~passwordOk
       THEN /\ user' = incLoginAttempts(user, user, hour)
            /\ Respond(p, InvalidCredentials)
       ELSE IF ~matchPassword(passwordOk)
       THEN /\ user' = incLoginAttempts(user, resetLoginAttempts(user), hour)
            /\ Respond(p, Response(401, "Invalid credentials"))
       ELSE /\ user' = resetLoginAttempts(user)
            /\ Respond(p, Response(200, "Login successful"))
    /\ NoEmit
    /\ UNCHANGED <<loginFrame, pc, loaded, hour>>

\* the clock of the login code
LoginTick ==
    /\ hour < MaxHour
    /\ hour' = hour + 1
    /\ UNCHANGED <<loginFrame, pc, resp, emitted, delivered, user, loaded>>

\* ------------------------------------------------------------ the cleanup

\* 6 * 30 days and 365 days, in the model's unit of time
sixMonths == 6 * 30 * DAY
oneYear == 365 * DAY

\* faulty variant: old contacts go whatever their status
deleteOldContacts_AnyStatus(store, t) ==
    SelectSeq(store, LAMBDA c : ~(c.createdAt < t - sixMonths))

\* Contact.deleteMany({ createdAt: { $lt: sixMonthsAgo }, status: 'resolved' })
deleteOldContacts(store, t) ==
    SelectSeq(store, LAMBDA c : ~(/\ c.createdAt < t - sixMonths
                                  /\ c.status = "resolved"))

\* Booking.deleteMany({ createdAt: { $lt: oneYearAgo },
\*                      bookingStatus: 'completed' })
deleteOldBookings(store, t) ==
    SelectSeq(store, LAMBDA b : ~(/\ b.createdAt < t - oneYear
                                  /\ b.bookingStatus = "completed"))

\* what cleanupOldData returns: the deletedCount of each deleteMany
Removed(contactsRemoved, bookingsRemoved) ==
    [contactsRemoved |-> contactsRemoved, bookingsRemoved |-> bookingsRemoved]

\* cleanupOldData: the contacts, then the bookings; the slot keeps what
\* the call returned
cleanupOldData(p) ==
    /\ contacts' = deleteOldContacts(contacts, now)
    /\ bookings' = deleteOldBookings(bookings, now)
    /\ Respond(p, Removed(Len(contacts) - Len(contacts'),
                          Len(bookings) - Len(bookings')))
    /\ UNCHANGED <<rooms, now, pc, req, roomData, bookingData, raced,
                   sessions, emitted, delivered,
                   user, loaded, hour>>

\* ----------------------------------------------------- the room handlers

\* a flag that a request may leave out: <<>> or <<value>>
NoFlag == <<>>

\* validateRoom, handleValidationErrors: body('price').isFloat({ min: 0 }),
\* body('maxOccupancy').isInt({ min: 1, max: 10 }); the text fields of the
\* request are taken as valid
validateRoom(body) ==
    IF \/ body.price = NoAmount
       \/ body.price < 0
       \/ body.maxOccupancy < 1
       \/ body.maxOccupancy > 10
    THEN ValidationFailed
    ELSE NoResponse

\* the validators of roomSchema on the paths a request sets:
\* pricePerNight min 0, maxOccupancy min 1 and max 10
roomSchemaValid(body) ==
    /\ body.pricePerNight # NoAmount => body.pricePerNight >= 0
    /\ body.maxOccupancy >= 1
    /\ body.maxOccupancy <= 10

\* the document of a request: price is not a schema path and is dropped,
\* isAvailable defaults to true
NewRoom(body) ==
    [exists |-> TRUE,
     isAvailable |-> IF body.isAvailable = NoFlag THEN TRUE
                     ELSE body.isAvailable[1],
     pricePerNight |-> body.pricePerNight,
     maxOccupancy |-> body.maxOccupancy]

\* the ids Room.create has not given out yet
FreeRoomIds == {r \in RoomIds : ~rooms[r].exists}

\* POST /api/rooms: validateRoom, then createRoom.  Room.create validates
\* the document against the schema (pricePerNight is required).
createRoom(p, body) ==
    /\ pc[p] = "idle"
    /\ IF validateRoom(body) # NoResponse
       THEN Respond(p, validateRoom(body)) /\ UNCHANGED rooms
       ELSE IF body.pricePerNight = NoAmount \/ ~roomSchemaValid(body)
       THEN Respond(p, ValidationFailed) /\ UNCHANGED rooms
       ELSE /\ FreeRoomIds # {}
            /\ LET r == CHOOSE x \in FreeRoomIds :
                           \A y \in FreeRoomIds : x <= y
               IN  rooms' = [rooms EXCEPT ![r] = NewRoom(body)]
            /\ Respond(p, Response(201, "Room created successfully"))
    /\ NoEmit
    /\ UNCHANGED <<bookings, now, pc, req, roomData, bookingData, raced,
                   contacts, sessions,
                   user, loaded, hour>>

\* PUT /api/rooms/:id: validateRoom, then updateRoom.
\* Room.findByIdAndUpdate(id, req.body, { runValidators: true }) validates
\* the paths of the request, then sets them on the room it finds.
updateRoom(p, id, body) ==
    /\ pc[p] = "idle"
    /\ IF validateRoom(body) # NoResponse
       THEN Respond(p, validateRoom(body)) /\ UNCHANGED rooms
       ELSE IF ~roomSchemaValid(body)
       THEN Respond(p, ValidationFailed) /\ UNCHANGED rooms
       ELSE IF ~rooms[id].exists
       THEN Respond(p, Response(404, "Room not found")) /\ UNCHANGED rooms
       ELSE /\ rooms' = [rooms EXCEPT ![id] =
                  [exists |-> TRUE,
                   isAvailable |-> IF body.isAvailable = NoFlag
                                   THEN rooms[id].isAvailable
                                   ELSE body.isAvailable[1],
                   pricePerNight |-> IF body.pricePerNight = NoAmount
                                     THEN rooms[id].pricePerNight
                                     ELSE body.pricePerNight,
                   maxOccupancy |-> body.maxOccupancy]]
            /\ Respond(p, Response(200, "Room updated successfully"))
    /\ NoEmit
    /\ UNCHANGED <<bookings, now, pc, req, roomData, bookingData, raced,
                   contacts, sessions,
                   user, loaded, hour>>

\* the filter of deleteRoom's Booking.countDocuments
IsActive(b, room, t) ==
    /\ b.room = room
    /\ b.bookingStatus \in {"confirmed", "checked_in"}
    /\ b.checkOutDate >= t

\* DELETE /api/rooms/:id
deleteRoom(p, id) ==
    /\ pc[p] = "idle"
    /\ IF ~rooms[id].exists
       THEN Respond(p, Response(404, "Room not found")) /\ UNCHANGED rooms
       ELSE IF \E i \in BookingIds : IsActive(bookings[i], id, now)
       THEN /\ Respond(p, Response(400,
                            "Cannot delete room with active bookings"))
            /\ UNCHANGED rooms
       ELSE /\ rooms' = [rooms EXCEPT ![id] = NoRoom]
            /\ Respond(p, Response(200, "Room deleted successfully"))
    /\ NoEmit
    /\ UNCHANGED <<bookings, now, pc, req, roomData, bookingData, raced,
                   contacts, sessions,
                   user, loaded, hour>>

\* no booking id: the default null of excludeBookingId
NoBooking == 0

\* utils/apiHelpers checkRoomAvailability: the statuses of its query are
\* 'confirmed' and 'checked-in'
checkRoomAvailability(store, roomId, checkInDate, checkOutDate, excludeBookingId) ==
    {i \in 1..Len(store) :
        /\ store[i].room = roomId
        /\ store[i].bookingStatus \in {"confirmed", "checked-in"}
        /\ store[i].checkInDate < checkOutDate
        /\ store[i].checkOutDate > checkInDate
        /\ excludeBookingId # NoBooking => i # excludeBookingId} = {}

\* faulty variant: closed intervals
availabilityConflicts_Closed(store, room, checkIn, checkOut) ==
    {i \in 1..Len(store) :
        /\ store[i].room = room
        /\ store[i].checkInDate <= checkOut
        /\ store[i].checkOutDate >= checkIn
        /\ store[i].bookingStatus \in {"confirmed", "checked_in"}}

\* the filter of getRoomAvailability's Booking.find
availabilityConflicts(store, room, checkIn, checkOut) ==
    {i \in 1..Len(store) :
        /\ store[i].room = room
        /\ store[i].checkInDate < checkOut
        /\ store[i].checkOutDate > checkIn
        /\ store[i].bookingStatus \in {"confirmed", "checked_in"}}

\* the answer of getRoomAvailability
Availability(isAvailable, n) ==
    [code |-> 200, message |-> "", isAvailable |-> isAvailable,
     conflictingBookings |-> n]

\* GET /api/rooms/:id/availability?checkIn=..&checkOut=..; NoDate stands
\* for a date the query string leaves out
getRoomAvailability(p, id, checkIn, checkOut) ==
    /\ pc[p] = "idle"
    /\ IF checkIn = NoDate \/ checkOut = NoDate
       THEN Respond(p, Response(400,
                         "Check-in and check-out dates are required"))
       ELSE IF checkIn >= checkOut
       THEN Respond(p, Response(400,
                         "Check-out date must be after check-in date"))
       ELSE IF ~rooms[id].exists
       THEN Respond(p, Response(404, "Room not found"))
       ELSE LET found == availabilityConflicts(bookings, id, checkIn,
                                               checkOut)
            IN  Respond(p, Availability(found = {} /\ rooms[id].isAvailable,
                                        Cardinality(found)))
    /\ NoEmit
    /\ UNCHANGED <<rooms, bookings, now, pc, req, roomData, bookingData,
                   raced, contacts, sessions,
                   user, loaded, hour>>

\* ------------------------------------------------------ specifications
\* the date ranges of the requests: every range with checkIn < checkOut,
\* one with checkIn = checkOut and one with checkIn > checkOut
DateRanges ==
    {d \in Dates \X Dates : d[1] < d[2]} \cup {<<1, 1>>, <<2, 1>>}

\* every range and guest count on the rooms on sale, one request on the
\* room off sale and one on the room that does not exist
BookingBodies ==
    {[room |-> r, checkInDate |-> d[1], checkOutDate |-> d[2],
      numberOfGuests |-> g, paymentInfo |-> CardPayment] :
       r \in {1, 2}, d \in DateRanges, g \in Guests}
    \cup [room : {3, MissingRoom}, checkInDate : {0}, checkOutDate : {2},
          numberOfGuests : {MaxGuests}, paymentInfo : {CardPayment}]

PaymentBodies ==
    [paymentStatus : routePaymentStatuses \cup {Absent},
     status : validPaymentStatuses \cup {Absent}]

\* the payment information of a request: a method the validators know or
\* not, with or without a status of the client's own
PaymentInfos == [method : {"credit_card", "barter"},
                 status : {Absent, "completed"}]

\* LifecycleSpec and the failing insert of Spec use one room, range and
\* guest count
LifecycleBodies ==
    [room : {1}, checkInDate : {1}, checkOutDate : {2}, numberOfGuests : {1},
     paymentInfo : PaymentInfos]

\* Spec: the booking engine on one slot.  The admin moves pending bookings
\* to the two statuses that block a room.
BlockingStatuses == {"confirmed", "checked_in"}

Next ==
    \/ Tick
    \/ \E body \in BookingBodies :
          createBooking(1, body, 0, TRUE) /\ Len(bookings') <= MaxBookings
    \/ \E body \in LifecycleBodies : createBooking(1, body, 0, FALSE)
    \/ \E id \in AdminIds, status \in BlockingStatuses :
          /\ id \in BookingIds => bookings[id].bookingStatus = "pending"
          /\ updateBookingStatus(1, id, status, 0)

Spec == Init /\ [][Next]_vars

\* RaceSpec: two slots, createBooking step by step
RaceBodies ==
    [room : {1}, checkInDate : {0, 1}, checkOutDate : {2},
     numberOfGuests : {1}, paymentInfo : {CardPayment}]

NextRace ==
    \/ Tick
    \/ \E p \in Procs, body \in RaceBodies : createBooking_findRoom(p, body)
    \/ \E p \in Procs : createBooking_query(p)
    \/ \E p \in Procs, ok \in BOOLEAN :
          createBooking_save(p, 0, ok) /\ Len(bookings') <= MaxBookings
    \/ \E p \in Procs, id \in AdminIds :
          updateBookingStatus(p, id, "confirmed", 0)

RaceSpec == Init /\ [][NextRace]_vars

\* LifecycleSpec: every input of the admin handlers on one slot
NextLifecycle ==
    \/ Tick
    \/ \E body \in LifecycleBodies :
          createBooking(1, body, 0, TRUE)
          /\ Len(bookings') <= LifecycleBookings
    \/ \E id \in AdminIds, status \in validStatuses \cup {Absent},
          rnd \in RandSuffix : updateBookingStatus(1, id, status, rnd)
    \/ \E id \in AdminIds, body \in PaymentBodies, rnd \in RandSuffix :
          updatePaymentStatus(1, id, body, rnd)
    \/ \E id \in AdminIds, reason \in Reasons, refundAmount \in RefundAmounts,
          rnd \in RandSuffix : cancelBooking(1, id, reason, refundAmount, rnd)

LifecycleSpec == Init /\ [][NextLifecycle]_vars

\* RoomSpec: the bookings of room 1 next to the room handlers: the admin
\* takes the room off sale and back, deletes rooms, and the availability
\* of room 1 is queried
RoomBookingBodies ==
    {[room |-> 1, checkInDate |-> d[1], checkOutDate |-> d[2],
      numberOfGuests |-> MaxGuests, paymentInfo |-> CardPayment] :
       d \in {d \in Dates \X Dates : d[1] < d[2]}}

FlagBodies ==
    [price : {0}, pricePerNight : {NoAmount}, maxOccupancy : {1, 2},
     isAvailable : {<<TRUE>>, <<FALSE>>}]

QueryDates == Dates \cup {NoDate}

NextRoom ==
    \/ Tick
    \/ \E body \in RoomBookingBodies :
          createBooking(1, body, 0, TRUE)
          /\ Len(bookings') <= LifecycleBookings
    \/ \E id \in AdminIds, status \in {"confirmed", "checked_in", "cancelled"} :
          updateBookingStatus(1, id, status, 0)
    \/ \E id \in AdminIds :
          updatePaymentStatus(1, id, [paymentStatus |-> "completed",
                                      status |-> "completed"], 0)
    \/ \E body \in FlagBodies : updateRoom(1, 1, body)
    \/ \E id \in {1, MissingRoom} : deleteRoom(1, id)
    \/ \E id \in {1, MissingRoom}, checkIn \in QueryDates,
          checkOut \in QueryDates : getRoomAvailability(1, id, checkIn, checkOut)

RoomSpec == Init /\ [][NextRoom]_vars

\* RebookSpec: room 1 is booked again and again for overlapping dates while
\* the admin moves the bookings through every status and cancels them
RebookBodies ==
    [room : {1}, checkInDate : {0}, checkOutDate : {1, 2},
     numberOfGuests : {1}, paymentInfo : {CardPayment}]

NextRebook ==
    \/ \E body \in RebookBodies :
          createBooking(1, body, 0, TRUE) /\ Len(bookings') <= MaxBookings
    \/ \E id \in AdminIds, status \in validStatuses :
          updateBookingStatus(1, id, status, 0)
    \/ \E id \in AdminIds :
          cancelBooking(1, id, "changed plans", NoAmount, 0)

RebookSpec == Init /\ [][NextRebook]_vars

\* CleanupSpec: cleanupOldData on stores of old and recent documents while
\* the clock moves.  Times before the start of a run are negative; the
\* creation times lie on both sides of the two thresholds.  Of a booking
\* document the cleanup reads createdAt and bookingStatus; the statuses are
\* those the handlers write.
MaxStored == 2

ContactCreatedAts == {0 - sixMonths - 1, 0 - sixMonths, 0}
BookingCreatedAts == {0 - oneYear - 1, 0 - oneYear, 0 - sixMonths - 1}

StoredContacts ==
    [createdAt : ContactCreatedAts, status : {"new", "resolved", "closed"}]

StoredBookings ==
    [createdAt : BookingCreatedAts, bookingStatus : {"checked_out", "cancelled"}]

StoresOf(S) == UNION {[1..n -> S] : n \in 0..MaxStored}

InitCleanup ==
    /\ rooms = [r \in RoomIds \cup {MissingRoom} |-> NoRoom]
    /\ bookings \in StoresOf(StoredBookings)
    /\ now = 0
    /\ pc = [p \in Procs |-> "idle"]
    /\ req = [p \in Procs |-> NoRequest]
    /\ roomData = [p \in Procs |-> NoRoom]
    /\ bookingData = [p \in Procs |-> NoBookingData]
    /\ raced = [p \in Procs |-> FALSE]
    /\ resp = [p \in Procs |-> NoResponse]
    /\ contacts \in StoresOf(StoredContacts)
    /\ sessions = [s \in SessionIds |-> "disconnected"]
    /\ emitted = <<>>
    /\ delivered = [s \in SessionIds |-> <<>>]
    /\ user = NewUser
    /\ loaded = [p \in Procs |-> NoLogin]
    /\ hour = 0

NextCleanup ==
    \/ Tick
    \/ cleanupOldData(1)

CleanupSpec == InitCleanup /\ [][NextCleanup]_vars

\* LoginSpec: logins on one account one after another, with right and
\* wrong passwords, while the clock moves
NextLogin ==
    \/ LoginTick
    \/ \E passwordOk \in BOOLEAN : login(1, passwordOk)

LoginSpec == Init /\ [][NextLogin]_vars

\* LoginRaceSpec: two logins on the account step by step
NextLoginRace ==
    \/ LoginTick /\ hour' <= MaxRaceHour
    \/ \E p \in Procs, passwordOk \in BOOLEAN : login_rateLimit(p, passwordOk)
    \/ \E p \in Procs : login_find(p)
    \/ \E p \in Procs : login_update(p)

LoginRaceSpec == Init /\ [][NextLoginRace]_vars

\* NotifySpec: sockets come, join the admin room and go, while bookings
\* are created and confirmed and contact forms are sent, with emits and
\* emails that may throw
NextNotify ==
    \/ \E s \in SessionIds : connect(s)
    \/ \E s \in SessionIds : joinAdmin(s)
    \/ \E s \in SessionIds : disconnect(s)
    \/ \E body \in LifecycleBodies, ok \in BOOLEAN, emitOk \in BOOLEAN :
          createBooking_emit(1, body, 0, ok, emitOk)
          /\ Len(bookings') <= LifecycleBookings
    \/ \E id \in AdminIds, status \in {"confirmed", Absent},
          emitOk \in BOOLEAN :
          updateBookingStatus_emit(1, id, status, 0, emitOk)
    \/ \E valid \in BOOLEAN, confirmationOk \in BOOLEAN,
          notificationOk \in BOOLEAN :
          createContact(1, valid, confirmationOk, notificationOk)
          /\ Len(contacts') <= MaxContacts

NotifySpec == Init /\ [][NextNotify]_vars

\* CatalogSpec: createRoom and updateRoom from an empty catalog
RoomBodies ==
    [price : {NoAmount, 0, 100 * DOLLAR},
     pricePerNight : {NoAmount, 0 - DOLLAR, 0, 100 * DOLLAR},
     maxOccupancy : 0..MaxGuests,
     isAvailable : {NoFlag, <<FALSE>>}]

InitCatalog ==
    /\ rooms = [r \in RoomIds \cup {MissingRoom} |-> NoRoom]
    /\ bookings = <<>>
    /\ now = 0
    /\ pc = [p \in Procs |-> "idle"]
    /\ req = [p \in Procs |-> NoRequest]
    /\ roomData = [p \in Procs |-> NoRoom]
    /\ bookingData = [p \in Procs |-> NoBookingData]
    /\ raced = [p \in Procs |-> FALSE]
    /\ resp = [p \in Procs |-> NoResponse]
    /\ contacts = <<>>
    /\ sessions = [s \in SessionIds |-> "disconnected"]
    /\ emitted = <<>>
    /\ delivered = [s \in SessionIds |-> <<>>]
    /\ user = NewUser
    /\ loaded = [p \in Procs |-> NoLogin]
    /\ hour = 0

NextCatalog ==
    \/ \E body \in RoomBodies : createRoom(1, body)
    \/ \E id \in RoomIds \cup {MissingRoom}, body \in RoomBodies :
          updateRoom(1, id, body)

CatalogSpec == InitCatalog /\ [][NextCatalog]_vars

\* ================================================================ claims

\* the half-open overlap of [in1, out1) and [in2, out2)
Overlap(in1, out1, in2, out2) == in1 < out2 /\ in2 < out1

\* C1: any two bookings on the same room whose status is not cancelled
\* have disjoint half-open [checkIn, checkOut) intervals.
C1_NonCancelledDisjoint ==
    \A i, j \in BookingIds :
        (/\ i # j
         /\ bookings[i].room = bookings[j].room
         /\ bookings[i].bookingStatus # "cancelled"
         /\ bookings[j].bookingStatus # "cancelled")
        => ~Overlap(bookings[i].checkInDate, bookings[i].checkOutDate,
                    bookings[j].checkInDate, bookings[j].checkOutDate)

\* C2: of two concurrent createBooking calls for the same room and
\* overlapping dates at most one succeeds: a call does not answer 201 when
\* a booking overlapping its own went in between its overlap query and its
\* insert.
C2_LoserGetsConflict ==
    \A p \in Procs : (pc[p] = "idle" /\ raced[p]) => resp[p].code # 201

RoomNotAvailable == Response(400, "Room is not available for the selected dates")

\* a booking on the room, confirmed or checked in, that overlaps the range
Blocked(room, checkIn, checkOut) ==
    \E i \in BookingIds :
        /\ bookings[i].room = room
        /\ bookings[i].bookingStatus \in {"confirmed", "checked_in"}
        /\ Overlap(bookings[i].checkInDate, bookings[i].checkOutDate,
                   checkIn, checkOut)

\* the request names an existing, available room and a valid future range
WellFormed(body) ==
    /\ rooms[body.room].exists
    /\ rooms[body.room].isAvailable
    /\ body.checkInDate < body.checkOutDate
    /\ body.checkInDate >= now

\* C3: for a request on an existing, available room with a valid future
\* range, createBooking answers 'Room is not available for the selected
\* dates' exactly when a confirmed or checked-in booking on the room
\* overlaps the requested range; a request that no such booking overlaps,
\* within the room's occupancy, is persisted and answered 201.
C3_ConflictIff ==
    [][\A body \in BookingBodies :
          WellFormed(body)
          => /\ \A ok \in BOOLEAN :
                   createBooking(1, body, 0, ok)
                   => (resp'[1] = RoomNotAvailable
                       <=> Blocked(body.room, body.checkInDate,
                                   body.checkOutDate))
             /\ (/\ ~Blocked(body.room, body.checkInDate, body.checkOutDate)
                 /\ body.numberOfGuests <= rooms[body.room].maxOccupancy
                 /\ createBooking(1, body, 0, TRUE))
                => /\ resp'[1].code = 201
                   /\ Len(bookings') = Len(bookings) + 1]_vars

\* C3 witness: a request starting on the check-out date of a confirmed
\* booking of the same room was accepted
C3_Witness ==
    /\ Len(bookings) = 2
    /\ resp[1].code = 201
    /\ bookings[1].room = bookings[2].room
    /\ bookings[1].bookingStatus = "confirmed"
    /\ bookings[2].checkInDate = bookings[1].checkOutDate

\* C4: a persisted booking has nights = ceil((checkOut - checkIn) / 1 day),
\* subtotal = the room's nightly rate x nights, taxes = 12% of the
\* subtotal, a fee of 25 and a total of subtotal + taxes + fee, every
\* amount rounded to cents.
C4_Pricing ==
    \A i \in BookingIds :
        LET b == bookings[i]
            rate == rooms[b.room].pricePerNight
            span == b.checkOutDate - b.checkInDate
        IN  /\ b.numberOfNights * DAY >= span
            /\ (b.numberOfNights - 1) * DAY < span
            /\ b.pricing.subtotal = rate * b.numberOfNights
            /\ 100 * b.pricing.taxes = 12 * b.pricing.subtotal
            /\ b.pricing.fees = 25 * DOLLAR
            /\ b.pricing.totalAmount =
                  b.pricing.subtotal + b.pricing.taxes + b.pricing.fees
            /\ b.pricing.subtotal % CENT = 0
            /\ b.pricing.taxes % CENT = 0
            /\ b.pricing.totalAmount % CENT = 0

OccupancyExceeded(room) ==
    Response(400, "Room can accommodate maximum "
                  \o ToString(rooms[room].maxOccupancy) \o " guests")

C6_InvalidRangeRejected ==
    [][\A body \in BookingBodies, ok \in BOOLEAN :
          (/\ \/ body.checkInDate >= body.checkOutDate
              \/ body.checkInDate < now
           /\ createBooking(1, body, 0, ok))
          => /\ resp'[1].code >= 400
             /\ bookings' = bookings]_vars

\* C6 witness: a request was refused by the date rules after the clock
\* moved (the only rule a request of BookingBodies can break at the
\* validators is a date rule)
C6_Witness == resp[1] = ValidationFailed /\ now > 0 /\ Len(bookings) > 0

\* C7: cancel on a cancelled booking answers 'Booking is already
\* cancelled', on a checked-out booking 'Cannot cancel completed booking',
\* and in both cases leaves the store as it is (a request without the
\* reason the route requires is refused before that, and changes nothing
\* either).
C7_CancelClosedFails ==
    [][\A id \in AdminIds, reason \in Reasons, refundAmount \in RefundAmounts,
          rnd \in RandSuffix :
          (/\ id \in BookingIds
           /\ bookings[id].bookingStatus \in {"cancelled", "checked_out"}
           /\ cancelBooking(1, id, reason, refundAmount, rnd))
          => /\ bookings' = bookings
             /\ resp'[1].code = 400
             /\ reason # Absent
                => resp'[1].message =
                      IF bookings[id].bookingStatus = "cancelled"
                      THEN "Booking is already cancelled"
                      ELSE "Cannot cancel completed booking"]_vars

\* C7 witness: the cancel of a checked-out booking was refused
C7_Witness ==
    /\ Len(bookings) > 0
    /\ bookings[1].bookingStatus = "checked_out"
    /\ resp[1].message = "Cannot cancel completed booking"

\* C8: updatePayment with payment status completed moves a pending booking
\* to confirmed and leaves any other booking status as it is, and no
\* updatePayment moves a booking back to pending.
C8_PaymentPromotes ==
    [][\A id \in AdminIds, body \in PaymentBodies, rnd \in RandSuffix :
          (id \in BookingIds /\ updatePaymentStatus(1, id, body, rnd))
          => /\ body.paymentStatus = "completed"
                => bookings'[id].bookingStatus =
                      IF bookings[id].bookingStatus = "pending"
                      THEN "confirmed"
                      ELSE bookings[id].bookingStatus
             /\ bookings[id].bookingStatus # "pending"
                => bookings'[id].bookingStatus # "pending"]_vars

\* the lifecycle: pending -> confirmed -> checked_in -> checked_out,
\* pending | confirmed -> cancelled, confirmed -> no_show
Reachable(status) ==
    CASE status = "pending" -> {"confirmed", "checked_in", "checked_out",
                                "cancelled", "no_show"}
      [] status = "confirmed" -> {"checked_in", "checked_out", "cancelled",
                                  "no_show"}
      [] status = "checked_in" -> {"checked_out"}
      [] OTHER -> {}

\* C9: updateStatus refuses every newStatus, other than the booking's own
\* status, that the lifecycle does not reach from the booking's status,
\* and a booking in a terminal status never changes status again.
C9_LifecycleEnforced ==
    [][\A id \in AdminIds :
          id \in BookingIds
          => /\ \A status \in validStatuses, rnd \in RandSuffix :
                   (/\ status # bookings[id].bookingStatus
                    /\ status \notin Reachable(bookings[id].bookingStatus)
                    /\ updateBookingStatus(1, id, status, rnd))
                   => (bookings' = bookings /\ resp'[1].code = 400)
             /\ bookings[id].bookingStatus
                   \in {"checked_out", "cancelled", "no_show"}
                => bookings'[id].bookingStatus
                      = bookings[id].bookingStatus]_vars

\* C10: the first updateStatus to checked_in sets checkInTime and the first
\* to checked_out sets checkOutTime; once set, neither changes.
C10_StampedOnce ==
    [][\A id \in AdminIds :
          id \in BookingIds
          => /\ bookings[id].checkInTime # NoDate
                => bookings'[id].checkInTime = bookings[id].checkInTime
             /\ bookings[id].checkOutTime # NoDate
                => bookings'[id].checkOutTime = bookings[id].checkOutTime
             /\ \A rnd \in RandSuffix :
                   (/\ bookings[id].checkInTime = NoDate
                    /\ updateBookingStatus(1, id, "checked_in", rnd))
                   => bookings'[id].checkInTime = now
             /\ \A rnd \in RandSuffix :
                   (/\ bookings[id].checkOutTime = NoDate
                    /\ updateBookingStatus(1, id, "checked_out", rnd))
                   => bookings'[id].checkOutTime = now]_vars

\* C10 witness: a booking checked in again after the clock moved keeps the
\* stamp of its first check-in, and has its check-out stamp
C10_Witness ==
    /\ Len(bookings) > 0
    /\ now > 0
    /\ bookings[1].bookingStatus = "checked_in"
    /\ bookings[1].checkInTime = 0
    /\ bookings[1].checkOutTime = 1
    /\ resp[1] = Response(200, "Booking status updated successfully")

\* C11: cancel on a booking that is neither cancelled nor checked out sets
\* the status to cancelled and records a cancellation sub-record holding
\* the cancellation time, the reason and the refund amount, with refund
\* status pending if refundAmount > 0 and not_applicable otherwise.
C11_CancelRecords ==
    [][\A id \in AdminIds, refundAmount \in RefundAmounts, rnd \in RandSuffix :
          (/\ id \in BookingIds
           /\ bookings[id].bookingStatus \notin {"cancelled", "checked_out"}
           /\ cancelBooking(1, id, "changed plans", refundAmount, rnd))
          => LET c == bookings'[id].cancellation
             IN  /\ bookings'[id].bookingStatus = "cancelled"
                 /\ c.cancelledAt = now
                 /\ c.refundAmount =
                       IF refundAmount = NoAmount THEN 0 ELSE refundAmount
                 /\ \/ c.cancellationReason = "changed plans"
                    \/ /\ "reason" \in DOMAIN c
                       /\ c.reason = "changed plans"
                 /\ "refundStatus" \in DOMAIN c
                 /\ c.refundStatus = refundStatusOf(refundAmount)]_vars

\* the error createBooking has for a room that is missing or off sale
RoomError(room) ==
    IF ~rooms[room].exists
    THEN Response(404, "Room not found")
    ELSE Response(400, "Room is not available")

\* the request passes the validators of the route
PassesValidators(body) ==
    /\ body.checkInDate >= now
    /\ body.checkInDate < body.checkOutDate
    /\ body.numberOfGuests \in 1..10
    /\ body.paymentInfo.method \in paymentMethods

\* C12 as stated: createBooking fails with NotFound when the room does not
\* exist and with Unavailable when the room's flag is false, whatever the
\* dates and the guest count, persists nothing and emits nothing.
C12_RoomErrorsAnyDates ==
    [][\A body \in BookingBodies, ok \in BOOLEAN :
          (/\ ~rooms[body.room].exists \/ ~rooms[body.room].isAvailable
           /\ createBooking(1, body, 0, ok))
          => /\ resp'[1] = RoomError(body.room)
             /\ bookings' = bookings
             /\ emitted' = <<>>]_vars

\* C12 as amended: for a request that passes the validators of the route,
\* createBooking fails with NotFound when the room does not exist and with
\* Unavailable when the room's flag is false, whatever the guest count and
\* the store; a request on such a room that the validators refuse (a
\* check-in in the past) is answered 'Validation failed'.  In every case
\* nothing is persisted and no event is emitted or delivered.
C12_RoomErrors ==
    [][\A body \in BookingBodies, ok \in BOOLEAN :
          (/\ ~rooms[body.room].exists \/ ~rooms[body.room].isAvailable
           /\ createBooking(1, body, 0, ok))
          => /\ resp'[1] = IF PassesValidators(body)
                           THEN RoomError(body.room)
                           ELSE ValidationFailed
             /\ bookings' = bookings
             /\ emitted' = <<>>
             /\ \A s \in SessionIds : delivered'[s] = <<>>]_vars

\* C12 witness: a request on the room off sale was refused with the
\* availability error while the store holds a booking
C12_Witness ==
    /\ resp[1] = Response(400, "Room is not available")
    /\ Len(bookings) > 0
    /\ emitted = <<>>

\* C13: every booking persisted by a successful createBooking has booking
\* status pending and payment status pending when it is created, whatever
\* payment information the request carried.
C13_CreatedPending ==
    [][\A body \in LifecycleBodies :
          (resp'[1].code = 201 /\ createBooking(1, body, 0, TRUE))
          => /\ Len(bookings') = Len(bookings) + 1
             /\ bookings'[Len(bookings')].bookingStatus = "pending"
             /\ bookings'[Len(bookings')].paymentInfo.paymentStatus
                   = "pending"
             /\ bookings'[Len(bookings')].confirmationNumber = NoNumber]_vars

\* C13 witness: a booking was just created, pending and unpaid
C13_Witness ==
    /\ resp[1] = Response(201, "Booking created successfully")
    /\ Len(bookings) = 1
    /\ bookings[1].bookingStatus = "pending"
    /\ bookings[1].paymentInfo.paymentStatus = "pending"

\* C14: the availability query answers isAvailable = true exactly when the
\* room's flag is true and no confirmed or checked-in booking of the room
\* overlaps the requested range under the half-open rule.
C14_AvailabilityIff ==
    [][\A id \in {1, MissingRoom}, checkIn \in Dates, checkOut \in Dates :
          (/\ checkIn < checkOut
           /\ rooms[id].exists
           /\ getRoomAvailability(1, id, checkIn, checkOut))
          => /\ resp'[1].code = 200
             /\ resp'[1].isAvailable
                <=> (/\ rooms[id].isAvailable
                     /\ ~Blocked(id, checkIn, checkOut))]_vars

\* C14 witness: the query answered false for a room on sale that a
\* confirmed or checked-in booking blocks
C14_Witness ==
    /\ resp[1].code = 200
    /\ "isAvailable" \in DOMAIN resp[1]
    /\ ~resp[1].isAvailable
    /\ resp[1].conflictingBookings = 1
    /\ rooms[1].isAvailable

\* C15: checkRoomAvailability agrees with the overlap query of
\* createBooking on every store: without excludeBookingId it is true
\* exactly when that query finds no conflict, and with excludeBookingId = b
\* it is what that query finds on the store without booking b.
C15_HelperAgrees ==
    \A room \in RoomIds, checkIn \in Dates, checkOut \in Dates :
        checkIn < checkOut
        => LET found == conflictingBookings(bookings, room, checkIn,
                                            checkOut)
           IN  /\ checkRoomAvailability(bookings, room, checkIn, checkOut,
                                        NoBooking) = (found = {})
               /\ \A b \in BookingIds :
                     checkRoomAvailability(bookings, room, checkIn,
                                           checkOut, b)
                        = (found \ {b} = {})

\* C16: each booking with status confirmed or checked-in whose check-out
\* has not passed references a room that still exists.
C16_ActiveBookingHasRoom ==
    \A i \in BookingIds :
        (/\ bookings[i].bookingStatus \in {"confirmed", "checked_in"}
         /\ bookings[i].checkOutDate >= now)
        => rooms[bookings[i].room].exists

\* C20: in every state of the room catalog every room's nightly price and
\* max occupancy are strictly positive.
C20_PositivePriceAndOccupancy ==
    \A r \in RoomIds :
        rooms[r].exists
        => /\ rooms[r].pricePerNight > 0
           /\ rooms[r].maxOccupancy > 0

C18_SideEffectsSilent ==
    [][/\ \A body \in LifecycleBodies, emitOk \in BOOLEAN :
             (Len(bookings') = Len(bookings) + 1
              /\ createBooking_emit(1, body, 0, TRUE, emitOk))
             => resp'[1].code = 201
       /\ \A id \in AdminIds, emitOk \in BOOLEAN :
             (id \in BookingIds
              /\ updateBookingStatus_emit(1, id, "confirmed", 0, emitOk))
             => /\ resp'[1].code = 200
                /\ bookings'[id].bookingStatus = "confirmed"
       /\ \A confirmationOk \in BOOLEAN, notificationOk \in BOOLEAN :
             createContact(1, TRUE, confirmationOk, notificationOk)
             => /\ resp'[1].code = 201
                /\ Len(contacts') = Len(contacts) + 1
      ]_vars

\* C19: a booking has a confirmation number iff it has been saved in status
\* confirmed at some point: after every step a booking has a number exactly
\* when it had one before or is now in status confirmed, and a number that
\* is there keeps its value.
C19_ConfirmationNumber ==
    [][\A id \in 1..Len(bookings') :
          LET had == /\ id \in BookingIds
                     /\ bookings[id].confirmationNumber # NoNumber
          IN  /\ bookings'[id].confirmationNumber # NoNumber
                 <=> (had \/ bookings'[id].bookingStatus = "confirmed")
              /\ had => bookings'[id].confirmationNumber
                           = bookings[id].confirmationNumber]_vars

\* C19 witness: a booking confirmed at time 0 by a payment completion and
\* confirmed again by updateStatus after the clock moved still has the
\* number of time 0
C19_Witness ==
    /\ Len(bookings) > 0
    /\ now > 0
    /\ bookings[1].bookingStatus = "confirmed"
    /\ bookings[1].paymentInfo.paymentDate = 0
    /\ bookings[1].confirmationNumber \in {GeneratedNumber(0, rnd) : rnd \in RandSuffix}
    /\ resp[1] = Response(200, "Booking status updated successfully")

\* C23: after any sequential run of createBooking, updateStatus,
\* updatePayment and cancel, no two bookings of one room that are both
\* confirmed or checked in have overlapping [checkIn, checkOut) intervals.
C23_BlockingDisjoint ==
    \A i, j \in BookingIds :
        (/\ i # j
         /\ bookings[i].room = bookings[j].room
         /\ bookings[i].bookingStatus \in BlockingStatuses
         /\ bookings[j].bookingStatus \in BlockingStatuses)
        => ~Overlap(bookings[i].checkInDate, bookings[i].checkOutDate,
                    bookings[j].checkInDate, bookings[j].checkOutDate)

\* C24: every booking whose status is cancelled carries a cancellation
\* record with a cancellation timestamp.
C24_CancelledHasRecord ==
    \A i \in BookingIds :
        bookings[i].bookingStatus = "cancelled"
        => bookings[i].cancellation.cancelledAt # NoDate

\* C26: whenever createBooking answers 400, 404 or 500, the booking store
\* is unchanged by that call.
C26_ErrorLeavesStore ==
    [][\A body \in LifecycleBodies, ok \in BOOLEAN, emitOk \in BOOLEAN :
          (resp'[1].code \in {400, 404, 500}
           /\ createBooking_emit(1, body, 0, ok, emitOk))
          => bookings' = bookings]_vars

\* C27: a new-booking event is emitted only by a createBooking call that
\* has persisted its booking and answers 201, a booking-updated event only
\* by an updateStatus call that has saved and answers 200; so a call that
\* is turned down or whose save fails emits nothing.
C27_EmitAfterPersist ==
    [][/\ \A body \in BookingBodies \cup LifecycleBodies, ok \in BOOLEAN :
             (emitted' # <<>> /\ createBooking(1, body, 0, ok))
             => /\ emitted' = <<"new-booking">>
                /\ Len(bookings') = Len(bookings) + 1
                /\ bookings'[Len(bookings')].room = body.room
                /\ resp'[1].code = 201
       /\ \A id \in AdminIds, status \in BlockingStatuses :
             (emitted' # <<>> /\ updateBookingStatus(1, id, status, 0))
             => /\ emitted' = <<"booking-updated">>
                /\ id \in BookingIds
                /\ bookings'[id].bookingStatus = status
                /\ resp'[1].code = 200
      ]_vars

\* C27 witness: the second booking went in, the event went out and the
\* answer is 201
C27_Witness ==
    /\ Len(bookings) = MaxBookings
    /\ emitted = <<"new-booking">>
    /\ resp[1].code = 201

\* C25: in every reachable state each booking's guest count is at most the
\* current max occupancy of the room it references, under any sequence of
\* createBooking and updateRoom.
C25_GuestsWithinOccupancy ==
    \A i \in BookingIds :
        rooms[bookings[i].room].exists
        => bookings[i].numberOfGuests <= rooms[bookings[i].room].maxOccupancy

\* C29: a booking in status pending, cancelled, checked_out or no_show
\* never blocks a new reservation: createBooking answers that the room is
\* not available for the selected dates only when a confirmed or checked-in
\* booking of the room overlaps the dates; in particular not on account of
\* a booking that was cancelled.
C29_OnlyBlockingStatusesBlock ==
    [][\A body \in RebookBodies :
          (resp'[1] = RoomNotAvailable /\ createBooking(1, body, 0, TRUE))
          => Blocked(body.room, body.checkInDate, body.checkOutDate)]_vars

\* C29 witness: the first booking was cancelled by cancelBooking and the
\* second one, for the same room and dates, was accepted
C29_Witness ==
    /\ Len(bookings) = 2
    /\ bookings[1].bookingStatus = "cancelled"
    /\ bookings[1].cancellation.cancelledAt # NoDate
    /\ bookings[2].room = bookings[1].room
    /\ bookings[2].checkInDate = bookings[1].checkInDate
    /\ bookings[2].checkOutDate = bookings[1].checkOutDate
    /\ resp[1].code = 201

\* the number of documents of a store that equal r
CountOf(store, r) == Cardinality({i \in 1..Len(store) : store[i] = r})

CleanupTimes == 0..MaxNow

\* C21: cleanupOldData is idempotent and order-independent and removes only
\* records that are both old and closed: a run removes no contact that is
\* not resolved or not older than 6 months and no booking that is not
\* completed or not older than 1 year; a second run right after it (at
\* the same or a later time) leaves the stores as a single run at that
\* time leaves them; and two runs give the same stores in either order.
C21_CleanupIdempotent ==
    [][cleanupOldData(1)
       => /\ \A c \in StoredContacts :
                ~(c.status = "resolved" /\ c.createdAt < now - 180 * DAY)
                => CountOf(contacts', c) = CountOf(contacts, c)
          /\ \A b \in StoredBookings :
                ~(b.bookingStatus = "completed"
                  /\ b.createdAt < now - 365 * DAY)
                => CountOf(bookings', b) = CountOf(bookings, b)
          /\ Len(contacts') <= Len(contacts)
          /\ Len(bookings') <= Len(bookings)
          /\ \A t \in CleanupTimes :
                t >= now
                => /\ deleteOldContacts(contacts', t)
                         = deleteOldContacts(contacts, t)
                   /\ deleteOldBookings(bookings', t)
                         = deleteOldBookings(bookings, t)
          /\ \A t \in CleanupTimes :
                /\ deleteOldContacts(contacts', t)
                      = deleteOldContacts(deleteOldContacts(contacts, t), now)
                /\ deleteOldBookings(bookings', t)
                      = deleteOldBookings(deleteOldBookings(bookings, t), now)
      ]_vars

\* C21 witness: after the clock moved a run has removed a resolved contact
\* that reached the age of 6 months, and kept a closed contact of the same
\* age and a checked-out booking older than a year
C21_Witness ==
    /\ now = 1
    /\ contacts = <<[createdAt |-> 0 - sixMonths, status |-> "closed"]>>
    /\ bookings = <<[createdAt |-> 0 - oneYear - 1,
                     bookingStatus |-> "checked_out"]>>
    /\ resp[1] = Removed(1, 0)

\* the lock of the account is in force, has expired
LockInForce == user.lockUntil # NoDate /\ user.lockUntil > hour
LockExpired == user.lockUntil # NoDate /\ user.lockUntil < hour

\* C22: after 5 consecutive failed password attempts the account is locked
\* for 2 hours: a failed attempt on an account that is not locked counts
\* one more (or restarts at 1 after an expired lock), the attempt that
\* brings the count to 5 or more locks the account until 2 hours later, and
\* no account has 5 or more attempts without a lock; while the lock is in
\* force every login attempt, also with the correct password, is rejected
\* and leaves loginAttempts and lockUntil unchanged.
C22_LockedAfterFive ==
    /\ [](user.loginAttempts >= 5 => user.lockUntil # NoDate)
    /\ [][\A passwordOk \in BOOLEAN :
             login(1, passwordOk)
             => IF LockInForce
                THEN resp'[1].code = 423 /\ user' = user
                ELSE ~passwordOk
                     => /\ user'.loginAttempts
                              = IF LockExpired THEN 1
                                ELSE user.loginAttempts + 1
                        /\ user'.loginAttempts >= 5
                              => user'.lockUntil = hour + 2
                        /\ resp'[1].code # 200]_vars

\* C22 witness: five failed attempts at time 0 have locked the account
\* until 2, and an attempt at time 1 was answered 423
C22_Witness ==
    /\ user.loginAttempts = 5
    /\ user.lockUntil = 2
    /\ hour = 1
    /\ resp[1].code = 423

\* C28: under any interleaving of concurrent failed logins, whenever a
\* failed attempt brings loginAttempts to 5 or more, lockUntil is set by
\* that attempt.
C28_LockSetAtFive ==
    [][(/\ user'.loginAttempts >= 5
        /\ user'.loginAttempts > user.loginAttempts)
       => user'.lockUntil = hour + 2]_vars

====
